---------------------------- MODULE Spec2Model ----------------------------
(***************************************************************************)
(* Model of the process + analyze pair of the three-stage pipeline         *)
(* (src/problem3/processor/process.py, src/problem3/analyzer/analyze.py)   *)
(* and of the completion-marker protocol on the shared storage area.       *)
(*                                                                         *)
(* Text is a sequence of one-character strings.  A file on the shared      *)
(* storage is Absent, Partial (created or truncated by open(..., 'w') and  *)
(* not yet completely written: its content is a strict prefix of the JSON  *)
(* text, which json.load rejects) or Complete(d), d the value that         *)
(* json.dump serialised and json.load gives back.                          *)
(***************************************************************************)
EXTENDS Integers, Sequences, FiniteSets, TLC

(***************************************************************************)
(* Characters and the regular-expression classes the code uses.            *)
(***************************************************************************)
UpperChars == <<"A","B","C","D","E","F","G","H","I","J","K","L","M",
                "N","O","P","Q","R","S","T","U","V","W","X","Y","Z">>
LowerChars == <<"a","b","c","d","e","f","g","h","i","j","k","l","m",
                "n","o","p","q","r","s","t","u","v","w","x","y","z">>
Digits == {"0","1","2","3","4","5","6","7","8","9"}
Range(s) == {s[i] : i \in 1..Len(s)}

\* str.lower() / re.IGNORECASE on one ASCII character
Lower(c) ==
    IF \E i \in 1..26 : UpperChars[i] = c
    THEN LowerChars[CHOOSE i \in 1..26 : UpperChars[i] = c]
    ELSE c
LowerStr(s) == [i \in 1..Len(s) |-> Lower(s[i])]

IsAlpha(c) == c \in Range(UpperChars) \cup Range(LowerChars)   \* [a-zA-Z]
IsWordChar(c) == IsAlpha(c) \/ c \in Digits \/ c = "_"          \* \w
IsSpace(c) == c \in {" ", "\n", "\t", "\r"}                     \* \s
IsVowel(c) == c \in {"a","e","i","o","u","y"}                   \* [aeiouy]
IsSentenceEnd(c) == c \in {".", "!", "?"}                       \* [.!?]
IsQuote(c) == c \in {"'", "\""}                                 \* ['"]
IsAttrChar(c) == ~(IsQuote(c) \/ c = " " \/ c = ">")            \* [^'" >]

SubSeqFrom(s, i) == SubSeq(s, i, Len(s))

\* the literal lit (lower case) occurs in s at position i, ignoring case
MatchAt(s, i, lit) ==
    /\ i >= 1
    /\ i + Len(lit) - 1 <= Len(s)
    /\ \A k \in 1..Len(lit) : Lower(s[i + k - 1]) = lit[k]

\* least position >= i holding '>', 0 when there is none
FirstGT(s, i) ==
    IF \E j \in i..Len(s) : s[j] = ">"
    THEN CHOOSE j \in i..Len(s) : s[j] = ">" /\ \A k \in i..(j-1) : s[k] # ">"
    ELSE 0

\* least position >= i where lit occurs, 0 when there is none
FirstLit(s, i, lit) ==
    IF \E j \in i..Len(s) : MatchAt(s, j, lit)
    THEN CHOOSE j \in i..Len(s) :
            MatchAt(s, j, lit) /\ \A k \in i..(j-1) : ~MatchAt(s, k, lit)
    ELSE 0

ScriptOpen  == <<"<","s","c","r","i","p","t">>
ScriptClose == <<"<","/","s","c","r","i","p","t",">">>
StyleOpen   == <<"<","s","t","y","l","e">>
StyleClose  == <<"<","/","s","t","y","l","e",">">>
HrefAttr    == <<"h","r","e","f","=">>
SrcAttr     == <<"s","r","c","=">>

\* last position of a match of  <open[^>]*>.*?</close>  starting at i, else 0
BlockEnd(s, i, open, close) ==
    IF ~MatchAt(s, i, open) THEN 0
    ELSE LET j == FirstGT(s, i + Len(open))
         IN  IF j = 0 THEN 0
             ELSE LET k == FirstLit(s, j + 1, close)
                  IN  IF k = 0 THEN 0 ELSE k + Len(close) - 1

\* re.sub(r'<open[^>]*>.*?</close>', '', s, flags=re.DOTALL | re.IGNORECASE)
RECURSIVE RemoveBlocksFrom(_, _, _, _)
RemoveBlocksFrom(s, i, open, close) ==
    IF i > Len(s) THEN <<>>
    ELSE LET e == BlockEnd(s, i, open, close)
         IN  IF e # 0 THEN RemoveBlocksFrom(s, e + 1, open, close)
             ELSE <<s[i]>> \o RemoveBlocksFrom(s, i + 1, open, close)
RemoveBlocks(s, open, close) == RemoveBlocksFrom(s, 1, open, close)

\* last position of the greedy run [^'" >]* starting at p (p - 1 when empty)
RECURSIVE AttrRunEnd(_, _)
AttrRunEnd(s, p) ==
    IF p <= Len(s) /\ IsAttrChar(s[p]) THEN AttrRunEnd(s, p + 1) ELSE p - 1

\* first position of the group of  attr['"]?([^'" >]+)  matched at i, else 0
AttrValueStart(s, i, attr) ==
    IF ~MatchAt(s, i, attr) THEN 0
    ELSE LET p == i + Len(attr)
         IN  IF p <= Len(s) /\ IsQuote(s[p]) /\ AttrRunEnd(s, p + 1) >= p + 1
             THEN p + 1
             ELSE IF AttrRunEnd(s, p) >= p THEN p ELSE 0

\* re.findall(r'attr[\'"]?([^\'" >]+)', s, flags=re.IGNORECASE)
RECURSIVE FindAttrFrom(_, _, _)
FindAttrFrom(s, i, attr) ==
    IF i > Len(s) THEN <<>>
    ELSE LET v == AttrValueStart(s, i, attr)
         IN  IF v = 0 THEN FindAttrFrom(s, i + 1, attr)
             ELSE LET e == AttrRunEnd(s, v)
                  IN  <<SubSeq(s, v, e)>> \o FindAttrFrom(s, e + 1, attr)
FindAttr(s, attr) == FindAttrFrom(s, 1, attr)

\* re.sub(r'<[^>]+>', ' ', s)
RECURSIVE StripTagsFrom(_, _)
StripTagsFrom(s, i) ==
    IF i > Len(s) THEN <<>>
    ELSE LET j == IF s[i] = "<" THEN FirstGT(s, i + 1) ELSE 0
         IN  IF j >= i + 2 THEN <<" ">> \o StripTagsFrom(s, j + 1)
             ELSE <<s[i]>> \o StripTagsFrom(s, i + 1)
StripTags(s) == StripTagsFrom(s, 1)

\* re.sub(r'\s+', ' ', s)
RECURSIVE CollapseSpaceFrom(_, _)
CollapseSpaceFrom(s, i) ==
    IF i > Len(s) THEN <<>>
    ELSE IF IsSpace(s[i])
         THEN IF i > 1 /\ IsSpace(s[i-1]) THEN CollapseSpaceFrom(s, i + 1)
              ELSE <<" ">> \o CollapseSpaceFrom(s, i + 1)
         ELSE <<s[i]>> \o CollapseSpaceFrom(s, i + 1)
CollapseSpace(s) == CollapseSpaceFrom(s, 1)

\* str.strip()
Strip(s) ==
    IF \A i \in 1..Len(s) : IsSpace(s[i]) THEN <<>>
    ELSE LET a == CHOOSE i \in 1..Len(s) :
                     ~IsSpace(s[i]) /\ \A k \in 1..(i-1) : IsSpace(s[k])
             b == CHOOSE i \in 1..Len(s) :
                     ~IsSpace(s[i]) /\ \A k \in (i+1)..Len(s) : IsSpace(s[k])
         IN  SubSeq(s, a, b)

\* mutant: links and images are taken from the markup as it came in
strip_html_FromOriginal(html_content) ==
    LET h1 == RemoveBlocks(html_content, ScriptOpen, ScriptClose)
        h2 == RemoveBlocks(h1, StyleOpen, StyleClose)
    IN  [text   |-> Strip(CollapseSpace(StripTags(h2))),
         links  |-> FindAttr(html_content, HrefAttr),
         images |-> FindAttr(html_content, SrcAttr)]

\* mutant: whitespace is trimmed at the ends but its runs are left as they are
strip_html_KeepWhitespace(html_content) ==
    LET h1 == RemoveBlocks(html_content, ScriptOpen, ScriptClose)
        h2 == RemoveBlocks(h1, StyleOpen, StyleClose)
    IN  [text   |-> Strip(StripTags(h2)),
         links  |-> FindAttr(h2, HrefAttr),
         images |-> FindAttr(h2, SrcAttr)]

\* strip_html: script and style blocks are removed first; links and images are
\* taken from what remains; then tags are replaced by spaces and whitespace
\* is collapsed and trimmed
strip_html(html_content) ==
    LET h1 == RemoveBlocks(html_content, ScriptOpen, ScriptClose)
        h2 == RemoveBlocks(h1, StyleOpen, StyleClose)
    IN  [text   |-> Strip(CollapseSpace(StripTags(h2))),
         links  |-> FindAttr(h2, HrefAttr),
         images |-> FindAttr(h2, SrcAttr)]

(***************************************************************************)
(* Numbers.  A Python float that is a quotient of integers is kept as the  *)
(* fraction in lowest terms <<n, d>>; round(x, k) is kept as the integer   *)
(* nearest to x * 10^k (ties to even, as round() does on an exact tie; the *)
(* quotients the model reaches have no tie that a float would move).       *)
(***************************************************************************)
RECURSIVE Gcd(_, _)
Gcd(a, b) == IF b = 0 THEN a ELSE Gcd(b, a % b)
Frac(n, d) == LET g == Gcd(n, d) IN <<n \div g, d \div g>>

\* round(n / d, k) for d > 0, as an integer count of 10^-k units (scale = 10^k)
RoundScaled(n, d, scale) ==
    LET q == (n * scale) \div d
        r == (n * scale) % d
    IN  IF 2 * r > d \/ (2 * r = d /\ q % 2 = 1) THEN q + 1 ELSE q

RECURSIVE SumLen(_)
SumLen(ws) == IF ws = <<>> THEN 0 ELSE Len(Head(ws)) + SumLen(Tail(ws))

(***************************************************************************)
(* count_statistics                                                        *)
(***************************************************************************)
\* the maximal runs of the positions of s that mask does not mark (empty runs
\* dropped)
RECURSIVE RunsFrom(_, _, _, _)
RunsFrom(s, i, cur, mask) ==
    IF i > Len(s) THEN (IF cur = <<>> THEN <<>> ELSE <<cur>>)
    ELSE IF mask[i]
         THEN (IF cur = <<>> THEN <<>> ELSE <<cur>>) \o RunsFrom(s, i + 1, <<>>, mask)
         ELSE RunsFrom(s, i + 1, Append(cur, s[i]), mask)

\* text.split()
SplitWhitespace(s) == RunsFrom(s, 1, <<>>, [i \in 1..Len(s) |-> IsSpace(s[i])])

\* [x.strip() for x in segments if x.strip()]
NonBlank(segs) == SelectSeq(segs, LAMBDA x : Strip(x) # <<>>)

\* re.split(r'[.!?]+', s), blank segments dropped
Sentences(s) ==
    NonBlank(RunsFrom(s, 1, <<>>, [i \in 1..Len(s) |-> IsSentenceEnd(s[i])]))

\* last position of a match of  \n\s*\n  starting at i, else 0
RECURSIVE SpaceRunEnd(_, _)
SpaceRunEnd(s, p) ==
    IF p <= Len(s) /\ IsSpace(s[p]) THEN SpaceRunEnd(s, p + 1) ELSE p - 1
ParagraphBreakEnd(s, i) ==
    IF s[i] # "\n" THEN 0
    ELSE LET e == SpaceRunEnd(s, i)
             ks == {k \in (i+1)..e : s[k] = "\n"}
         IN  IF ks = {} THEN 0 ELSE CHOOSE k \in ks : \A m \in ks : m <= k

\* re.split(r'\n\s*\n', s)
RECURSIVE ParagraphSplitFrom(_, _, _)
ParagraphSplitFrom(s, i, cur) ==
    IF i > Len(s) THEN <<cur>>
    ELSE LET e == ParagraphBreakEnd(s, i)
         IN  IF e # 0 THEN <<cur>> \o ParagraphSplitFrom(s, e + 1, <<>>)
             ELSE ParagraphSplitFrom(s, i + 1, Append(cur, s[i]))
Paragraphs(s) == NonBlank(ParagraphSplitFrom(s, 1, <<>>))

\* avg_word_length is round(total / word_count, 2), kept in hundredths
count_statistics(text) ==
    LET words == SplitWhitespace(text)
    IN  [word_count      |-> Len(words),
         sentence_count  |-> Len(Sentences(text)),
         paragraph_count |-> Len(Paragraphs(text)),
         avg_word_length |-> IF Len(words) > 0
                             THEN RoundScaled(SumLen(words), Len(words), 100)
                             ELSE 0]

(***************************************************************************)
(* The analyzer's pure functions                                           *)
(***************************************************************************)
\* mutant: the lists are not turned into sets, so a repeated token counts again
jaccard_similarity_Lists(doc1_words, doc2_words) ==
    LET intersection == Range(doc1_words) \cap Range(doc2_words)
        total == Len(doc1_words) + Len(doc2_words) - Cardinality(intersection)
    IN  IF total # 0 THEN Frac(Cardinality(intersection), total) ELSE <<0, 1>>

\* mutant: the intersection is divided by the first document's vocabulary
jaccard_similarity_OverFirst(doc1_words, doc2_words) ==
    LET set1 == Range(doc1_words)
        set2 == Range(doc2_words)
    IN  IF set1 \cup set2 # {}
        THEN (IF set1 # {} THEN Frac(Cardinality(set1 \cap set2), Cardinality(set1))
                           ELSE <<0, 1>>)
        ELSE <<0, 1>>

\* len(intersection) / len(union) if union else 0.0
jaccard_similarity(doc1_words, doc2_words) ==
    LET set1 == Range(doc1_words)
        set2 == Range(doc2_words)
        intersection == set1 \cap set2
        union == set1 \cup set2
    IN  IF union # {} THEN Frac(Cardinality(intersection), Cardinality(union))
        ELSE <<0, 1>>

\* re.findall(r'\b[a-zA-Z]+\b', text.lower()): a match starts and ends at a
\* word boundary, so it is a maximal run of \w characters, all of them letters
tokenize_text(text) ==
    LET lowered == LowerStr(text)
        runs == RunsFrom(lowered, 1, <<>>,
                         [i \in 1..Len(lowered) |-> ~IsWordChar(lowered[i])])
    IN  SelectSeq(runs, LAMBDA w : \A i \in 1..Len(w) : IsAlpha(w[i]))

\* ' '.join(ws)
RECURSIVE JoinSpace(_)
JoinSpace(ws) ==
    IF ws = <<>> THEN <<>>
    ELSE IF Len(ws) = 1 THEN ws[1]
    ELSE ws[1] \o <<" ">> \o JoinSpace(Tail(ws))

\* mutant: the loop stops one window early
extract_ngrams_OffByOne(words, n) ==
    IF Len(words) < n THEN <<>>
    ELSE [i \in 1..(Len(words) - n) |-> JoinSpace(SubSeq(words, i, i + n - 1))]

extract_ngrams(words, n) ==
    IF Len(words) < n THEN <<>>
    ELSE [i \in 1..(Len(words) - n + 1) |-> JoinSpace(SubSeq(words, i, i + n - 1))]

\* len(re.findall(r'[aeiouy]+', word)), at least 1
SyllableCount(word) ==
    LET groups == Len(RunsFrom(word, 1, <<>>, [i \in 1..Len(word) |-> ~IsVowel(word[i])]))
    IN  IF groups = 0 THEN 1 ELSE groups

RECURSIVE SumSyllables(_)
SumSyllables(ws) ==
    IF ws = <<>> THEN 0 ELSE SyllableCount(Head(ws)) + SumSyllables(Tail(ws))

RECURSIVE SumSentences(_)
SumSentences(texts) ==
    IF texts = <<>> THEN 0 ELSE Len(Sentences(Head(texts))) + SumSentences(Tail(texts))

RECURSIVE TokenizeAll(_)
TokenizeAll(texts) ==
    IF texts = <<>> THEN <<>> ELSE tokenize_text(Head(texts)) \o TokenizeAll(Tail(texts))

\* avg_sentence_length and avg_word_length are round(x, 2), kept in hundredths.
\* complexity_score is 206.835 - 1.015 * (tw / ts) - 84.6 * (tsyl / tw), kept as
\* the exact fraction: the code's round(x, 2) of it falls on decimal ties that
\* binary floating point decides, so the last rounding is left out.
ReadabilityMetrics(total_sentences, total_words, total_chars, total_syllables) ==
    [avg_sentence_length |->
        IF total_sentences > 0 THEN RoundScaled(total_words, total_sentences, 100) ELSE 0,
     avg_word_length |->
        IF total_words > 0 THEN RoundScaled(total_chars, total_words, 100) ELSE 0,
     complexity_score |->
        IF total_sentences > 0 /\ total_words > 0
        THEN LET d == 1000 * total_sentences * total_words
                 n == 206835 * total_sentences * total_words
                        - 1015 * total_words * total_words
                        - 84600 * total_syllables * total_sentences
                 g == Gcd(IF n < 0 THEN -n ELSE n, d)
             IN  <<n \div g, d \div g>>
        ELSE <<0, 1>>]

\* the words and the four totals are computed once each, as the code's loop
\* does, and the metrics are taken from them
calculate_readability_metrics(all_texts) ==
    LET totals == {[sentences |-> SumSentences(all_texts), words |-> Len(words),
                    chars |-> SumLen(words), syllables |-> SumSyllables(words)] :
                       words \in {TokenizeAll(all_texts)}}
    IN  CHOOSE m \in {ReadabilityMetrics(t.sentences, t.words, t.chars, t.syllables) :
                         t \in totals} : TRUE

\* collections.Counter: the keys in first-insertion order, each with its count
RECURSIVE CounterUpdate(_, _)
CounterUpdate(counter, items) ==
    IF items = <<>> THEN counter
    ELSE LET k == Head(items)
             c1 == IF \E i \in 1..Len(counter) : counter[i].key = k
                   THEN [i \in 1..Len(counter) |->
                            IF counter[i].key = k
                            THEN [key |-> k, count |-> counter[i].count + 1]
                            ELSE counter[i]]
                   ELSE Append(counter, [key |-> k, count |-> 1])
         IN  CounterUpdate(c1, Tail(items))

\* the (i, j) pairs of  for i in range(n): for j in range(i + 1, n)  in order
RECURSIVE PairsFrom(_, _, _)
PairsFrom(i, j, n) ==
    IF i > n THEN <<>>
    ELSE IF j > n THEN PairsFrom(i + 1, i + 2, n)
    ELSE <<<<i, j>>>> \o PairsFrom(i, j + 1, n)

\* similarity is round(similarity, 4), kept in ten-thousandths
calculate_document_similarities(documents_data) ==
    LET pairs == PairsFrom(1, 2, Len(documents_data))
    IN  [p \in 1..Len(pairs) |->
            LET d1 == documents_data[pairs[p][1]]
                d2 == documents_data[pairs[p][2]]
                sim == jaccard_similarity(d1.words, d2.words)
            IN  [doc1 |-> d1.filename, doc2 |-> d2.filename,
                 similarity |-> RoundScaled(sim[1], sim[2], 10000)]]


(***************************************************************************)
(* The shared storage area and the two stages.                             *)
(***************************************************************************)
Absent == [state |-> "absent"]      \* no such file
Partial == [state |-> "partial"]    \* opened with 'w', the text not yet complete
Complete(d) == [state |-> "complete", data |-> d]   \* written and closed

\* bound: the number of items of a fetch-completion record
MaxItems == 2

HtmlExt == <<".","h","t","m","l">>
JsonExt == <<".","j","s","o","n">>
\* the names of the raw documents
Names == {<<"a">> \o HtmlExt, <<"b">> \o HtmlExt, <<"a">> \o JsonExt}
Statuses == {"success", "failed"}

\* what the fetch stage stores under /shared/raw/<name>
RawHtml(name) ==
    IF name = <<"a">> \o HtmlExt
    THEN <<"<","p",">","A"," ","b",".","<","/","p",">">>
    ELSE IF name = <<"b">> \o HtmlExt
    THEN <<"<","a"," ","h","r","e","f","=","x",">","a"," ","c","<","/","a",">">>
    ELSE <<"b"," ","c","!">>

\* the fetch-completion records: for each item {file, status}
RECURSIVE SeqsUpTo(_, _)
SeqsUpTo(S, n) ==
    IF n = 0 THEN {<<>>}
    ELSE LET shorter == SeqsUpTo(S, n - 1)
         IN  shorter \cup {Append(q, x) : q \in {r \in shorter : Len(r) = n - 1}, x \in S}
FetchItems == [file : Names, status : Statuses]
FetchRecords == {[results |-> q] : q \in SeqsUpTo(FetchItems, MaxItems)}

\* str.replace(old, new)
RECURSIVE ReplaceFrom(_, _, _, _)
ReplaceFrom(s, i, old, new) ==
    IF i > Len(s) THEN <<>>
    ELSE IF i + Len(old) - 1 <= Len(s) /\ SubSeq(s, i, i + Len(old) - 1) = old
         THEN new \o ReplaceFrom(s, i + Len(old), old, new)
         ELSE <<s[i]>> \o ReplaceFrom(s, i + 1, old, new)
Replace(s, old, new) == ReplaceFrom(s, 1, old, new)

\* os.path.basename
Basename(path) ==
    LET slashes == {i \in 1..Len(path) : path[i] = "/"}
    IN  IF slashes = {} THEN path
        ELSE SubSeqFrom(path, (CHOOSE i \in slashes : \A k \in slashes : k <= i) + 1)

RawDir == <<"/","s","h","a","r","e","d","/","r","a","w","/">>
OutputFile(source_file) == Replace(source_file, HtmlExt, JsonExt)
OutNames == {OutputFile(n) : n \in Names}

\* json.load of a file's content: raises unless the JSON text is complete
JsonLoads(content) == content.state = "complete"

\* the dictionary process_html_file builds (processed_at, a clock reading, is
\* left out)
ProcessedDocument(html_file_path, html_content) ==
    LET ex == strip_html(html_content)
    IN  [source_file |-> Basename(html_file_path),
         text        |-> ex.text,
         statistics  |-> count_statistics(ex.text),
         links       |-> ex.links,
         images      |-> ex.images]

\* the entries main appends to results
SuccessResult(source_file, processed_result) ==
    [source_file |-> source_file,
     output_file |-> OutputFile(source_file),
     status      |-> "success",
     word_count  |-> processed_result.statistics.word_count,
     link_count  |-> Len(processed_result.links),
     image_count |-> Len(processed_result.images)]
FailedResult(source_file) ==
    [source_file |-> source_file,
     output_file |-> OutputFile(source_file),
     status      |-> "failed"]

CountStatus(results, st) == Len(SelectSeq(results, LAMBDA r : r.status = st))

\* mutant: the failed count looks for a status no result carries
CompletionStatus_WrongFailed(results) ==
    [files_processed |-> Len(results),
     successful      |-> CountStatus(results, "success"),
     failed          |-> CountStatus(results, "error"),
     results         |-> results]

\* the process-completion record (timestamp, a clock reading, is left out)
CompletionStatus(results) ==
    [files_processed |-> Len(results),
     successful      |-> CountStatus(results, "success"),
     failed          |-> CountStatus(results, "failed"),
     results         |-> results]

\* [r for r in results if r["status"] == "success"]
SuccessfulFiles(results) == SelectSeq(results, LAMBDA r : r.status = "success")


\* the accumulators of analyze_corpus before the first document
EmptyCorpus ==
    [all_words |-> <<>>, all_texts |-> <<>>, word_frequency |-> <<>>,
     bigram_frequency |-> <<>>, trigram_frequency |-> <<>>, documents_data |-> <<>>]

\* the body of analyze_corpus's try block for one loaded ProcessedDocument
AddDocument(corpus, output_file, data) ==
    LET text == data.text
        words == tokenize_text(text)
        bigrams == extract_ngrams(words, 2)
        trigrams == extract_ngrams(words, 3)
    IN  [all_words         |-> corpus.all_words \o words,
         all_texts         |-> Append(corpus.all_texts, text),
         word_frequency    |-> CounterUpdate(corpus.word_frequency, words),
         bigram_frequency  |-> CounterUpdate(corpus.bigram_frequency, bigrams),
         trigram_frequency |-> CounterUpdate(corpus.trigram_frequency, trigrams),
         documents_data    |-> Append(corpus.documents_data,
                                      [filename |-> output_file, words |-> words,
                                       word_count |-> Len(words)])]

TopWords == 100
TopBigrams == 20

\* mutant: the ranking is not cut to n entries
MostCommon_NoLimit(counter, n) ==
    [i \in 1..Len(counter) |->
        LET before == {j \in 1..Len(counter) :
                          \/ counter[j].count > counter[i].count
                          \/ counter[j].count = counter[i].count /\ j < i}
            at == CHOOSE k \in 1..Len(counter) :
                     Cardinality({j \in 1..Len(counter) :
                          \/ counter[j].count > counter[k].count
                          \/ counter[j].count = counter[k].count /\ j < k}) = i - 1
        IN  counter[at]]

\* Counter.most_common(n): by count, largest first, equal counts in insertion
\* order, at most n entries
RECURSIVE InsertByCount(_, _)
InsertByCount(sorted, e) ==
    IF sorted = <<>> THEN <<e>>
    ELSE IF Head(sorted).count >= e.count
         THEN <<Head(sorted)>> \o InsertByCount(Tail(sorted), e)
         ELSE <<e>> \o sorted
RECURSIVE SortByCount(_)
SortByCount(counter) ==
    IF counter = <<>> THEN <<>>
    ELSE InsertByCount(SortByCount(SubSeq(counter, 1, Len(counter) - 1)),
                       counter[Len(counter)])
MostCommon(counter, n) ==
    LET sorted == SortByCount(counter)
    IN  SubSeq(sorted, 1, IF Len(sorted) < n THEN Len(sorted) ELSE n)

\* the final report main builds (processing_timestamp, a clock reading, is left
\* out); frequency is round(count / total_words, 4), kept in ten-thousandths
FinalReport(successful_files, corpus) ==
    LET total_words == Len(corpus.all_words)
        top == MostCommon(corpus.word_frequency, TopWords)
        topb == MostCommon(corpus.bigram_frequency, TopBigrams)
    IN  [documents_processed |-> Len(successful_files),
         total_words         |-> total_words,
         unique_words        |-> Len(corpus.word_frequency),
         top_100_words       |-> [i \in 1..Len(top) |->
                                    [word |-> top[i].key, count |-> top[i].count,
                                     frequency |-> IF total_words > 0
                                                   THEN RoundScaled(top[i].count, total_words, 10000)
                                                   ELSE 0]],
         document_similarity |-> calculate_document_similarities(corpus.documents_data),
         top_bigrams         |-> [i \in 1..Len(topb) |->
                                    [bigram |-> topb[i].key, count |-> topb[i].count]],
         readability         |-> calculate_readability_metrics(corpus.all_texts)]


VARIABLES
    raw,               \* /shared/raw/<name>: Absent or the document's HTML
    fetch_complete,    \* /shared/status/fetch_complete.json
    processed,         \* /shared/processed/<name>
    process_complete,  \* /shared/status/process_complete.json
    final_report,      \* /shared/analysis/final_report.json
    fetcher_done,      \* the fetch stage of this run has finished
    ppc,               \* the Processor's position in main
    fetch_status,      \* Processor: the loaded fetch-completion record
    p_successful_files,\* Processor: successful_files
    results,           \* Processor: results
    pidx,              \* Processor: index of the for loop
    p_result,          \* Processor: result inside process_html_file
    apc,               \* the Analyzer's position in main
    process_status,    \* Analyzer: the loaded process-completion record
    a_successful_files,\* Analyzer: successful_files
    aidx,              \* Analyzer: index of analyze_corpus's for loop
    corpus,            \* Analyzer: the accumulators of analyze_corpus
    a_report,          \* Analyzer: final_report (the dictionary)
    raw_reads,         \* history: raw documents the Processor has read
    doc_writes,        \* history: times the Processor opened each output for writing
    status_writes,     \* history: times the Processor opened process_complete.json for writing
    faults,            \* history: loop indices whose process_html_file returned None
    ana_reads,         \* history: ProcessedDocument files the Analyzer has opened
    report_writes,     \* history: times the Analyzer opened final_report.json for writing
    u_call,            \* a function called on its own: its name and arguments
    u_ret              \* what that call returned, once it has

storage == <<raw, fetch_complete, processed, process_complete, final_report, fetcher_done>>
plocals == <<ppc, fetch_status, p_successful_files, results, pidx, p_result>>
alocals == <<apc, process_status, a_successful_files, aidx, corpus, a_report>>
phistory == <<raw_reads, doc_writes, status_writes, faults>>
ahistory == <<ana_reads, report_writes>>
unit == <<u_call, u_ret>>
vars == <<storage, plocals, alocals, phistory, ahistory, unit>>

None == [none |-> TRUE]

\* what an earlier, complete run of the pipeline over one document leaves on
\* the shared storage
EarlierName == <<"a">> \o HtmlExt
EarlierFetch == [results |-> <<[file |-> EarlierName, status |-> "success"]>>]
EarlierDoc == ProcessedDocument(RawDir \o EarlierName, RawHtml(EarlierName))
EarlierStatus == CompletionStatus(<<SuccessResult(EarlierName, EarlierDoc)>>)
EarlierReport ==
    FinalReport(SuccessfulFiles(EarlierStatus.results),
                AddDocument(EmptyCorpus, OutputFile(EarlierName), EarlierDoc))

\* the shared storage before any run
EmptyStorage ==
    /\ raw = [n \in Names |-> Absent]
    /\ fetch_complete = Absent
    /\ processed = [o \in OutNames |-> Absent]
    /\ process_complete = Absent
    /\ final_report = Absent

\* the shared storage as the earlier run left it (a run from EmptyStorage over
\* EarlierFetch with no failure ends with exactly these files)
EarlierStorage ==
    /\ raw = [n \in Names |-> IF n = EarlierName THEN Complete(RawHtml(n)) ELSE Absent]
    /\ fetch_complete = Complete(EarlierFetch)
    /\ processed = [o \in OutNames |->
                      IF o = OutputFile(EarlierName) THEN Complete(EarlierDoc) ELSE Absent]
    /\ process_complete = Complete(EarlierStatus)
    /\ final_report = Complete(EarlierReport)

\* no function is being called on its own
NoCall == [fn |-> "none"]
NotReturned == [done |-> FALSE]
Returned(v) == [done |-> TRUE, value |-> v]

\* both stages at the top of main
StagesAtStart ==
    /\ fetcher_done = FALSE
    /\ ppc = "start" /\ fetch_status = None /\ p_successful_files = <<>>
    /\ results = <<>> /\ pidx = 0 /\ p_result = None
    /\ apc = "start" /\ process_status = None /\ a_successful_files = <<>>
    /\ aidx = 0 /\ corpus = EmptyCorpus /\ a_report = None
    /\ raw_reads = {} /\ doc_writes = [o \in OutNames |-> 0] /\ status_writes = 0
    /\ faults = {} /\ ana_reads = {} /\ report_writes = 0

\* both stages at the top of main; the storage empty, or as an earlier run left it
Init ==
    /\ (EmptyStorage \/ EarlierStorage)
    /\ StagesAtStart
    /\ u_call = NoCall /\ u_ret = NotReturned

\* os.path.exists
FileExists(content) == content.state # "absent"

(***************************************************************************)
(* The fetch stage, at its boundary: it stores the raw documents of its    *)
(* success items and then its completion record.                           *)
(***************************************************************************)
Fetcher ==
    /\ ~fetcher_done
    /\ \E rec \in FetchRecords :
        /\ fetch_complete' = Complete(rec)
        /\ raw' = [n \in Names |->
                     IF \E i \in 1..Len(rec.results) :
                            rec.results[i].file = n /\ rec.results[i].status = "success"
                     THEN Complete(RawHtml(n)) ELSE raw[n]]
    /\ fetcher_done' = TRUE
    /\ UNCHANGED <<processed, process_complete, final_report>>
    /\ UNCHANGED <<plocals, alocals, phistory, ahistory>>
    /\ UNCHANGED unit

(***************************************************************************)
(* The Processor (process.py main)                                         *)
(***************************************************************************)
\* os.makedirs(..., exist_ok=True)
ProcStart ==
    /\ ppc = "start"
    /\ ppc' = "poll"
    /\ UNCHANGED <<fetch_status, p_successful_files, results, pidx, p_result>>
    /\ UNCHANGED <<storage, alocals, phistory, ahistory>>
    /\ UNCHANGED unit

\* while not os.path.exists(fetch_status_file): time.sleep(2)
ProcWait ==
    /\ ppc = "poll"
    /\ ~FileExists(fetch_complete)
    /\ UNCHANGED vars

\* mutant: no wait; without a fetch record the run goes on with no items
ProcPollFound_NoWait ==
    /\ ppc = "poll"
    /\ IF FileExists(fetch_complete)
       THEN /\ ppc' = "read"
            /\ UNCHANGED <<fetch_status, p_successful_files, results, pidx>>
       ELSE /\ ppc' = "loop"
            /\ fetch_status' = [results |-> <<>>]
            /\ p_successful_files' = <<>>
            /\ results' = <<>>
            /\ pidx' = 1
    /\ UNCHANGED p_result
    /\ UNCHANGED <<storage, alocals, phistory, ahistory>>
    /\ UNCHANGED unit

ProcPollFound ==
    /\ ppc = "poll"
    /\ FileExists(fetch_complete)
    /\ ppc' = "read"
    /\ UNCHANGED <<fetch_status, p_successful_files, results, pidx, p_result>>
    /\ UNCHANGED <<storage, alocals, phistory, ahistory>>
    /\ UNCHANGED unit

\* mutant: the Processor removes the fetch-completion record once it has read it
ProcRead_ConsumesRecord ==
    /\ ppc = "read"
    /\ IF JsonLoads(fetch_complete)
       THEN /\ fetch_status' = fetch_complete.data
            /\ p_successful_files' = SuccessfulFiles(fetch_complete.data.results)
            /\ results' = <<>>
            /\ pidx' = 1
            /\ ppc' = "loop"
            /\ fetch_complete' = Absent
       ELSE /\ ppc' = "crashed"
            /\ UNCHANGED <<fetch_status, p_successful_files, results, pidx, fetch_complete>>
    /\ UNCHANGED p_result
    /\ UNCHANGED <<raw, processed, process_complete, final_report, fetcher_done>>
    /\ UNCHANGED <<alocals, phistory, ahistory>>
    /\ UNCHANGED unit

\* fetch_status = json.load(f); results = []; successful_files = [...]
ProcRead ==
    /\ ppc = "read"
    /\ IF JsonLoads(fetch_complete)
       THEN /\ fetch_status' = fetch_complete.data
            /\ p_successful_files' = SuccessfulFiles(fetch_complete.data.results)
            /\ results' = <<>>
            /\ pidx' = 1
            /\ ppc' = "loop"
       ELSE /\ ppc' = "crashed"
            /\ UNCHANGED <<fetch_status, p_successful_files, results, pidx>>
    /\ UNCHANGED p_result
    /\ UNCHANGED <<storage, alocals, phistory, ahistory>>
    /\ UNCHANGED unit

\* mutant: the newest result is put first
AppendResult_Prepend(rs, r) == <<r>> \o rs

\* results.append(r)
AppendResult(rs, r) == Append(rs, r)

\* mutant: the exception is not caught and ends the run
ItemFailed_Raises(source_file) ==
    /\ ppc' = "crashed"
    /\ UNCHANGED <<results, faults, pidx, p_result>>

\* process_html_file returned None: the item is recorded as failed and the loop
\* goes on
ItemFailed(source_file) ==
    /\ results' = AppendResult(results, FailedResult(source_file))
    /\ faults' = faults \cup {pidx}
    /\ pidx' = pidx + 1
    /\ p_result' = None
    /\ ppc' = "loop"

\* process_html_file: open and read the raw document, build result
ProcItemRead ==
    /\ ppc = "loop"
    /\ pidx <= Len(p_successful_files)
    /\ LET source_file == p_successful_files[pidx].file
       IN  \E io_ok \in BOOLEAN :
            IF io_ok /\ FileExists(raw[source_file])
            THEN /\ p_result' = ProcessedDocument(RawDir \o source_file, raw[source_file].data)
                 /\ raw_reads' = raw_reads \cup {source_file}
                 /\ ppc' = "item_open"
                 /\ UNCHANGED <<results, pidx, faults>>
            ELSE /\ ItemFailed(source_file)
                 /\ UNCHANGED raw_reads
    /\ UNCHANGED <<fetch_status, p_successful_files>>
    /\ UNCHANGED <<storage, alocals, doc_writes, status_writes, ahistory>>
    /\ UNCHANGED unit

\* process_html_file: open(output_file_path, 'w') creates or truncates the file
ProcItemOpen ==
    /\ ppc = "item_open"
    /\ LET source_file == p_successful_files[pidx].file
           output_file == OutputFile(source_file)
       IN  \E io_ok \in BOOLEAN :
            IF io_ok
            THEN /\ processed' = [processed EXCEPT ![output_file] = Partial]
                 /\ doc_writes' = [doc_writes EXCEPT ![output_file] = @ + 1]
                 /\ ppc' = "item_dump"
                 /\ UNCHANGED <<results, pidx, p_result, faults>>
            ELSE /\ ItemFailed(source_file)
                 /\ UNCHANGED <<processed, doc_writes>>
    /\ UNCHANGED <<fetch_status, p_successful_files>>
    /\ UNCHANGED <<raw, fetch_complete, process_complete, final_report, fetcher_done>>
    /\ UNCHANGED <<alocals, raw_reads, status_writes, ahistory>>
    /\ UNCHANGED unit

\* process_html_file: json.dump and close, then main appends the item's result
ProcItemDump ==
    /\ ppc = "item_dump"
    /\ LET source_file == p_successful_files[pidx].file
           output_file == OutputFile(source_file)
       IN  \E io_ok \in BOOLEAN :
            IF io_ok
            THEN /\ processed' = [processed EXCEPT ![output_file] = Complete(p_result)]
                 /\ results' = AppendResult(results, SuccessResult(source_file, p_result))
                 /\ pidx' = pidx + 1
                 /\ p_result' = None
                 /\ ppc' = "loop"
                 /\ UNCHANGED faults
            ELSE /\ ItemFailed(source_file)
                 /\ UNCHANGED processed
    /\ UNCHANGED <<fetch_status, p_successful_files>>
    /\ UNCHANGED <<raw, fetch_complete, process_complete, final_report, fetcher_done>>
    /\ UNCHANGED <<alocals, raw_reads, doc_writes, status_writes, ahistory>>
    /\ UNCHANGED unit

\* after the loop: open("/shared/status/process_complete.json", 'w')
ProcStatusOpen ==
    /\ ppc = "loop"
    /\ pidx > Len(p_successful_files)
    /\ process_complete' = Partial
    /\ status_writes' = status_writes + 1
    /\ ppc' = "status_dump"
    /\ UNCHANGED <<fetch_status, p_successful_files, results, pidx, p_result>>
    /\ UNCHANGED <<raw, fetch_complete, processed, final_report, fetcher_done>>
    /\ UNCHANGED <<alocals, raw_reads, doc_writes, faults, ahistory>>
    /\ UNCHANGED unit

\* json.dump(status, f, indent=2) and close
ProcStatusDump ==
    /\ ppc = "status_dump"
    /\ process_complete' = Complete(CompletionStatus(results))
    /\ ppc' = "done"
    /\ UNCHANGED <<fetch_status, p_successful_files, results, pidx, p_result>>
    /\ UNCHANGED <<raw, fetch_complete, processed, final_report, fetcher_done>>
    /\ UNCHANGED <<alocals, phistory, ahistory>>
    /\ UNCHANGED unit

\* the Processor's process is killed somewhere before main returns
ProcKill ==
    /\ ppc \notin {"done", "killed", "crashed"}
    /\ ppc' = "killed"
    /\ UNCHANGED <<fetch_status, p_successful_files, results, pidx, p_result>>
    /\ UNCHANGED <<storage, alocals, phistory, ahistory>>
    /\ UNCHANGED unit

(***************************************************************************)
(* The Analyzer (analyze.py main)                                          *)
(***************************************************************************)
\* os.makedirs(..., exist_ok=True)
AnaStart ==
    /\ apc = "start"
    /\ apc' = "poll"
    /\ UNCHANGED <<process_status, a_successful_files, aidx, corpus, a_report>>
    /\ UNCHANGED <<storage, plocals, phistory, ahistory>>
    /\ UNCHANGED unit

\* while not os.path.exists(process_status_file): time.sleep(2)
AnaWait ==
    /\ apc = "poll"
    /\ ~FileExists(process_complete)
    /\ UNCHANGED vars

\* mutant: the poll looks for the wrong file
AnaPollFound_WrongFile ==
    /\ apc = "poll"
    /\ FileExists(final_report)
    /\ apc' = "read"
    /\ UNCHANGED <<process_status, a_successful_files, aidx, corpus, a_report>>
    /\ UNCHANGED <<storage, plocals, phistory, ahistory>>
    /\ UNCHANGED unit

AnaPollFound ==
    /\ apc = "poll"
    /\ FileExists(process_complete)
    /\ apc' = "read"
    /\ UNCHANGED <<process_status, a_successful_files, aidx, corpus, a_report>>
    /\ UNCHANGED <<storage, plocals, phistory, ahistory>>
    /\ UNCHANGED unit

\* mutant: the early return is missing
NothingToAnalyze_Never(successful_files) == FALSE

\* if not successful_files: return
NothingToAnalyze(successful_files) == successful_files = <<>>

\* process_status = json.load(f); successful_files = [...]; the early return
AnaRead ==
    /\ apc = "read"
    /\ IF JsonLoads(process_complete)
       THEN /\ process_status' = process_complete.data
            /\ a_successful_files' = SuccessfulFiles(process_complete.data.results)
            /\ aidx' = 1
            /\ apc' = IF NothingToAnalyze(SuccessfulFiles(process_complete.data.results))
                      THEN "done" ELSE "analyze"
       ELSE /\ apc' = "crashed"
            /\ UNCHANGED <<process_status, a_successful_files, aidx>>
    /\ UNCHANGED <<corpus, a_report>>
    /\ UNCHANGED <<storage, plocals, phistory, ahistory>>
    /\ UNCHANGED unit

\* analyze_corpus: one turn of the loop; a document that does not load (no
\* file, an I/O error, incomplete JSON) is reported and skipped
AnaLoad ==
    /\ apc = "analyze"
    /\ aidx <= Len(a_successful_files)
    /\ LET file_info == a_successful_files[aidx]
           content == processed[file_info.output_file]
       IN  \E io_ok \in BOOLEAN :
            /\ corpus' = IF io_ok /\ JsonLoads(content)
                         THEN AddDocument(corpus, file_info.output_file, content.data)
                         ELSE corpus
            /\ ana_reads' = IF io_ok /\ FileExists(content)
                            THEN ana_reads \cup {file_info.output_file}
                            ELSE ana_reads
    /\ aidx' = aidx + 1
    /\ UNCHANGED <<apc, process_status, a_successful_files, a_report>>
    /\ UNCHANGED <<storage, plocals, phistory, report_writes>>
    /\ UNCHANGED unit

\* similarities, readability and rankings, the final_report dictionary, and
\* open("/shared/analysis/final_report.json", 'w')
AnaReportOpen ==
    /\ apc = "analyze"
    /\ aidx > Len(a_successful_files)
    /\ a_report' = FinalReport(a_successful_files, corpus)
    /\ final_report' = Partial
    /\ report_writes' = report_writes + 1
    /\ apc' = "report_dump"
    /\ UNCHANGED <<process_status, a_successful_files, aidx, corpus>>
    /\ UNCHANGED <<raw, fetch_complete, processed, process_complete, fetcher_done>>
    /\ UNCHANGED <<plocals, phistory, ana_reads>>
    /\ UNCHANGED unit

\* json.dump(final_report, f, ...) and close
AnaReportDump ==
    /\ apc = "report_dump"
    /\ final_report' = Complete(a_report)
    /\ apc' = "done"
    /\ UNCHANGED <<process_status, a_successful_files, aidx, corpus, a_report>>
    /\ UNCHANGED <<raw, fetch_complete, processed, process_complete, fetcher_done>>
    /\ UNCHANGED <<plocals, phistory, ahistory>>
    /\ UNCHANGED unit

Next ==
    \/ Fetcher
    \/ ProcStart \/ ProcWait \/ ProcPollFound \/ ProcRead
    \/ ProcItemRead \/ ProcItemOpen \/ ProcItemDump
    \/ ProcStatusOpen \/ ProcStatusDump \/ ProcKill
    \/ AnaStart \/ AnaWait \/ AnaPollFound \/ AnaRead
    \/ AnaLoad \/ AnaReportOpen \/ AnaReportDump

Spec == Init /\ [][Next]_vars

\* the first run of the pipeline, on an empty shared storage
InitFirstRun == Init /\ EmptyStorage
SpecFirstRun == InitFirstRun /\ [][Next]_vars

\* Both stages run to their end: no stage is killed, and a stage that can take
\* its next step eventually does (each is a process of its own that the
\* operating system keeps scheduling; time.sleep returns).  Nothing is assumed
\* about the fetch stage.
ProcessorStep ==
    \/ ProcStart \/ ProcPollFound \/ ProcRead
    \/ ProcItemRead \/ ProcItemOpen \/ ProcItemDump
    \/ ProcStatusOpen \/ ProcStatusDump
AnalyzerStep ==
    \/ AnaStart \/ AnaPollFound \/ AnaRead
    \/ AnaLoad \/ AnaReportOpen \/ AnaReportDump
NextFair == Fetcher \/ ProcWait \/ AnaWait \/ ProcessorStep \/ AnalyzerStep
SpecFair ==
    Init /\ [][NextFair]_vars /\ WF_vars(ProcessorStep) /\ WF_vars(AnalyzerStep)

(***************************************************************************)
(* Functions called on their own.  Each specification draws the arguments  *)
(* of one call from a bounded set, both stages idle on an empty storage,   *)
(* and its action makes the call.                                          *)
(***************************************************************************)
Idle == EmptyStorage /\ StagesAtStart
Called(fn) == u_call.fn = fn /\ u_ret.done

\* bound: the length of a token list
MaxTokens == 3
Tokens == {<<"a">>, <<"b">>, <<"c">>}
TokenLists == SeqsUpTo(Tokens, MaxTokens)

InitJaccard ==
    /\ Idle
    /\ u_call \in {[fn |-> "jaccard_similarity", args |-> <<A, B>>] :
                       A \in TokenLists, B \in TokenLists}
    /\ u_ret = NotReturned

CallJaccard ==
    /\ u_call.fn = "jaccard_similarity"
    /\ ~u_ret.done
    /\ u_ret' = Returned(jaccard_similarity(u_call.args[1], u_call.args[2]))
    /\ UNCHANGED <<u_call, storage, plocals, alocals, phistory, ahistory>>

SpecJaccard == InitJaccard /\ [][CallJaccard]_vars

\* bound: the number of pieces of markup an HTML input is made of
MaxParts == 3

\* pieces of markup, each with the href= and src= values it holds outside
\* script and style blocks
Markup ==
    { [src |-> <<"<","a"," ","h","r","e","f","=","x",">">>,
       links |-> << <<"x">> >>, images |-> <<>>],
      [src |-> <<"<","a"," ","H","R","E","F","=","'","v","'",">">>,
       links |-> << <<"v">> >>, images |-> <<>>],
      [src |-> <<"<","i","m","g"," ","s","r","c","=","\"","y","\"",">">>,
       links |-> <<>>, images |-> << <<"y">> >>],
      [src |-> <<"<","s","c","r","i","p","t",">","h","r","e","f","=","z",
                 "<","/","s","c","r","i","p","t",">">>,
       links |-> <<>>, images |-> <<>>],
      [src |-> <<"<","S","T","Y","L","E"," ","a",">","s","r","c","=","w","\n",
                 "<","/","s","t","y","l","e",">">>,
       links |-> <<>>, images |-> <<>>],
      [src |-> <<"t">>, links |-> <<>>, images |-> <<>>],
      [src |-> <<"<">>, links |-> <<>>, images |-> <<>>],
      [src |-> <<">">>, links |-> <<>>, images |-> <<>>] }

RECURSIVE Html(_)
Html(parts) == IF parts = <<>> THEN <<>> ELSE Head(parts).src \o Html(Tail(parts))

InitStripHtml ==
    /\ Idle
    /\ u_call \in {[fn |-> "strip_html", args |-> <<Html(parts)>>, parts |-> parts] :
                       parts \in SeqsUpTo(Markup, MaxParts)}
    /\ u_ret = NotReturned

CallStripHtml ==
    /\ u_call.fn = "strip_html"
    /\ ~u_ret.done
    /\ u_ret' = Returned(strip_html(u_call.args[1]))
    /\ UNCHANGED <<u_call, storage, plocals, alocals, phistory, ahistory>>

SpecStripHtml == InitStripHtml /\ [][CallStripHtml]_vars

\* bound: the length of a text given to tokenize_text
MaxChars == 4
TextChars == {"a", "B", "1", "_", " ", "."}

InitTokenize ==
    /\ Idle
    /\ u_call \in {[fn |-> "tokenize_text", args |-> <<text>>] :
                       text \in SeqsUpTo(TextChars, MaxChars)}
    /\ u_ret = NotReturned

CallTokenize ==
    /\ u_call.fn = "tokenize_text"
    /\ ~u_ret.done
    /\ u_ret' = Returned(tokenize_text(u_call.args[1]))
    /\ UNCHANGED <<u_call, storage, plocals, alocals, phistory, ahistory>>

SpecTokenize == InitTokenize /\ [][CallTokenize]_vars

\* bound: the length of a word list given to extract_ngrams
MaxWords == 4
NgramSizes == {2, 3}

InitNgrams ==
    /\ Idle
    /\ u_call \in {[fn |-> "extract_ngrams", args |-> <<words, n>>] :
                       words \in SeqsUpTo(Tokens, MaxWords), n \in NgramSizes}
    /\ u_ret = NotReturned

\* the call returns a new list; words is only sliced
CallNgrams ==
    /\ u_call.fn = "extract_ngrams"
    /\ ~u_ret.done
    /\ u_ret' = Returned(extract_ngrams(u_call.args[1], u_call.args[2]))
    /\ UNCHANGED <<u_call, storage, plocals, alocals, phistory, ahistory>>

SpecNgrams == InitNgrams /\ [][CallNgrams]_vars

\* bound: the number of documents of a corpus given to the report
MaxDocs == 2

\* a text of TopBigrams + 1 different one-letter words, each once: as many
\* bigrams as the bigram ranking holds, so that one more document brings more
RECURSIVE ManyWordsFrom(_)
ManyWordsFrom(k) ==
    IF k > TopBigrams THEN <<>>
    ELSE <<LowerChars[k + 1], " ">> \o ManyWordsFrom(k + 1)
ManyWords == ManyWordsFrom(0)

\* the texts of the ProcessedDocuments of a corpus
DocTexts ==
    { <<"a","b">>,
      <<"a","a"," ","a","b"," ","a","a",".">>,
      <<"a","k"," ","a","b"," ","a","k"," ","a","b"," ","a","k">>,
      <<"b","a"," ","a","a","!"," ","b","a"," ","a","a">>,
      <<"A","A"," ","x","1"," ","a","b"," ","a","a"," ","a","b">>,
      <<"j","b"," ","j","a"," ","j","b"," ","j","a">>,
      <<>>,
      ManyWords }

\* analyze_corpus over documents that all load, then the report of main
RECURSIVE AnalyzeFrom(_, _, _)
AnalyzeFrom(acc, texts, i) ==
    IF i > Len(texts) THEN acc
    ELSE AnalyzeFrom(AddDocument(acc, <<"d">> \o JsonExt, [text |-> texts[i]]), texts, i + 1)

InitReport ==
    /\ Idle
    /\ u_call \in {[fn |-> "final_report", args |-> <<texts>>] :
                       texts \in SeqsUpTo(DocTexts, MaxDocs)}
    /\ u_ret = NotReturned

CallReport ==
    /\ u_call.fn = "final_report"
    /\ ~u_ret.done
    /\ u_ret' = Returned(FinalReport(u_call.args[1],
                                     AnalyzeFrom(EmptyCorpus, u_call.args[1], 1)))
    /\ UNCHANGED <<u_call, storage, plocals, alocals, phistory, ahistory>>

SpecReport == InitReport /\ [][CallReport]_vars

\* pieces of raw HTML with and without blank lines between paragraphs
RawPieces ==
    { <<"a">>,
      <<"b",".">>,
      <<" ">>,
      <<"\n">>,
      <<"\n","\n">>,
      <<"\n"," ","\t","\n">>,
      <<"<","p",">">>,
      <<"<","b","r",">","\r","\n","\r","\n">> }

RECURSIVE Concat(_)
Concat(pieces) == IF pieces = <<>> THEN <<>> ELSE Head(pieces) \o Concat(Tail(pieces))

\* process_html_file up to the dictionary it builds from the content read
InitDocument ==
    /\ Idle
    /\ u_call \in {[fn |-> "process_html_file",
                    args |-> <<RawDir \o <<"a">> \o HtmlExt, Concat(pieces)>>] :
                       pieces \in SeqsUpTo(RawPieces, MaxParts)}
    /\ u_ret = NotReturned

CallDocument ==
    /\ u_call.fn = "process_html_file"
    /\ ~u_ret.done
    /\ u_ret' = Returned(ProcessedDocument(u_call.args[1], u_call.args[2]))
    /\ UNCHANGED <<u_call, storage, plocals, alocals, phistory, ahistory>>

SpecDocument == InitDocument /\ [][CallDocument]_vars

(***************************************************************************)
(* Properties                                                              *)
(***************************************************************************)
\* C1: whenever the Analyzer, having found process_complete.json to exist,
\* reads it, the content it reads is the complete record (never an empty or
\* truncated one).
C1_PollerReadsCompleteRecord ==
    [][(apc = "read" /\ apc' # "read") => process_complete.state = "complete"]_vars

\* C2: while fetch_complete.json does not exist the Processor has read no raw
\* document and written no ProcessedDocument and no process_complete.json;
\* while process_complete.json does not exist the Analyzer has read no
\* ProcessedDocument and written no final report.
C2_NoConsumptionBeforeUpstream ==
    /\ ~FileExists(fetch_complete) =>
          /\ raw_reads = {}
          /\ \A o \in OutNames : doc_writes[o] = 0
          /\ status_writes = 0
          /\ ppc \in {"start", "poll", "killed"}
    /\ ~FileExists(process_complete) =>
          /\ ana_reads = {}
          /\ report_writes = 0
          /\ apc \in {"start", "poll"}

\* the Processor is past its poll and at work on documents while the Analyzer
\* still waits for the record that does not exist yet
C2_Witness ==
    /\ ~FileExists(process_complete)
    /\ apc = "poll"
    /\ raw_reads # {}
    /\ \E o \in OutNames : doc_writes[o] > 0

\* C3: once the Processor has been killed before finishing, no
\* process_complete.json is present, and the Analyzer is still waiting, having
\* read no ProcessedDocument and written no report.
C3_KilledLeavesNoRecord ==
    ppc = "killed" =>
        /\ ~FileExists(process_complete)
        /\ apc \in {"start", "poll"}
        /\ ana_reads = {}
        /\ report_writes = 0


\* the position in the fetch record fr of its i-th item with status success
IthSuccess(fr, i) ==
    CHOOSE p \in 1..Len(fr) :
        /\ fr[p].status = "success"
        /\ Cardinality({q \in 1..p : fr[q].status = "success"}) = i
NumSuccess(fr) == Cardinality({q \in 1..Len(fr) : fr[q].status = "success"})

\* C4: a document's failure never aborts the batch: whatever documents fail to
\* be read or written, the Processor does not stop on an exception, always has
\* a next step until the record is written, and writes process_complete.json
\* with, for every source name, as many ItemResults as the fetch record has
\* success items of that name (none for names that only failed in the fetch),
\* status failed exactly for the documents that failed.
C4_FailureNeverAbortsBatch ==
    /\ fetch_status # None => ppc # "crashed"
    /\ ppc \in {"loop", "item_open", "item_dump", "status_dump"} =>
          ENABLED (ProcItemRead \/ ProcItemOpen \/ ProcItemDump
                     \/ ProcStatusOpen \/ ProcStatusDump)
    /\ ppc \in {"status_dump", "done"} =>
          /\ \A n \in Names :
                Cardinality({i \in 1..Len(results) : results[i].source_file = n})
                  = Cardinality({q \in 1..Len(fetch_status.results) :
                                    /\ fetch_status.results[q].file = n
                                    /\ fetch_status.results[q].status = "success"})
          /\ \A i \in 1..Len(results) :
                /\ results[i].source_file \in Names
                /\ results[i].status = (IF i \in faults THEN "failed" ELSE "success")
    /\ ppc = "done" => process_complete = Complete(CompletionStatus(results))

\* a finished run in which a document failed and a later one succeeded
C4_Witness ==
    /\ ppc = "done"
    /\ \E i \in faults : \E j \in 1..Len(results) : j > i /\ results[j].status = "success"
    /\ process_complete.state = "complete"

\* C5: in every process-completion record, successful + failed = files_processed
\* = the length of results, and every result's status is success or failed.
C5_CountsAddUp ==
    process_complete.state = "complete" =>
        LET r == process_complete.data
        IN  /\ r.successful + r.failed = r.files_processed
            /\ r.files_processed = Len(r.results)
            /\ \A i \in 1..Len(r.results) : r.results[i].status \in {"success", "failed"}

\* the record of a finished run with a success and a failure
C5_Witness ==
    /\ ppc = "done"
    /\ process_complete.state = "complete"
    /\ process_complete.data.successful >= 1
    /\ process_complete.data.failed >= 1

\* C6: for every ItemResult of the record a finished run wrote: with status
\* success, /shared/processed/<output_file> holds the complete ProcessedDocument
\* of that source; with status failed, no such file exists.
C6_ResultMatchesArtifact ==
    (ppc = "done" /\ process_complete.state = "complete") =>
        \A i \in 1..Len(process_complete.data.results) :
            LET r == process_complete.data.results[i]
                f == processed[r.output_file]
            IN  IF r.status = "success"
                THEN /\ f.state = "complete"
                     /\ f.data = ProcessedDocument(RawDir \o r.source_file,
                                                   raw[r.source_file].data)
                ELSE f.state = "absent"

\* C7: the results of the record a finished run wrote are in the order of the
\* fetch record: the i-th result is that of the fetch record's i-th success item.
C7_ResultsInInputOrder ==
    (ppc = "done" /\ process_complete.state = "complete") =>
        LET rs == process_complete.data.results
            fr == fetch_status.results
        IN  /\ Len(rs) = NumSuccess(fr)
            /\ \A i \in 1..Len(rs) : rs[i].source_file = fr[IthSuccess(fr, i)].file

\* a finished run over two different documents, exactly one of which failed
C7_Witness ==
    /\ ppc = "done"
    /\ process_complete.state = "complete"
    /\ Len(process_complete.data.results) >= 2
    /\ process_complete.data.results[1].source_file
          # process_complete.data.results[2].source_file
    /\ process_complete.data.results[1].status
          # process_complete.data.results[2].status

\* the process-completion record of a run with nothing to process
EmptyStatus == [files_processed |-> 0, successful |-> 0, failed |-> 0, results |-> <<>>]

\* C8: a stage whose upstream completion record lists no success item does not
\* raise: the Processor writes the record with files_processed = successful =
\* failed = 0 and no results; the Analyzer returns without writing
\* final_report.json.
C8_NoSuccessfulItems ==
    /\ (fetch_status # None /\ NumSuccess(fetch_status.results) = 0) =>
          /\ ppc \in {"loop", "status_dump", "done", "killed"}
          /\ raw_reads = {}
          /\ ppc = "done" => process_complete = Complete(EmptyStatus)
    /\ (process_status # None
          /\ \A i \in 1..Len(process_status.results) :
                process_status.results[i].status # "success") =>
          /\ apc = "done"
          /\ report_writes = 0
          /\ ana_reads = {}

\* both stages have finished a run whose fetch record lists only failed items
C8_Witness ==
    /\ fetch_status # None
    /\ fetch_status.results # <<>>
    /\ NumSuccess(fetch_status.results) = 0
    /\ ppc = "done"
    /\ process_status = EmptyStatus
    /\ apc = "done"

RECURSIVE SumWordCount(_)
SumWordCount(docs) ==
    IF docs = <<>> THEN 0 ELSE Head(docs).word_count + SumWordCount(Tail(docs))

\* C9: the report the Analyzer wrote is the report over exactly the documents
\* that loaded: documents_processed, total_words, unique_words, the rankings,
\* document_similarity and readability are those of the loaded documents alone.
C9_ReportOverLoadedDocuments ==
    (apc = "done" /\ report_writes > 0) =>
        /\ final_report.state = "complete"
        /\ final_report.data.documents_processed = Len(corpus.documents_data)
        /\ final_report.data.total_words = SumWordCount(corpus.documents_data)
        /\ final_report.data = FinalReport(corpus.documents_data, corpus)

\* C10: in every final report, document_similarity has n * (n - 1) / 2 entries,
\* n being the report's documents_processed (none when n < 2).
C10_SimilarityPairCount ==
    final_report.state = "complete" =>
        LET n == final_report.data.documents_processed
        IN  /\ 2 * Len(final_report.data.document_similarity) = n * (n - 1)
            /\ n < 2 => final_report.data.document_similarity = <<>>

\* the distinct tokens of a token list, told apart from the token alphabet
Vocabulary(ws) == {t \in Tokens : \E i \in 1..Len(ws) : ws[i] = t}

\* C11 (as claimed): for all token lists A and B with identical sets of
\* distinct tokens, jaccard_similarity(A, B) = 1.0.
C11_IdenticalSetsGiveOne ==
    (Called("jaccard_similarity")
        /\ Vocabulary(u_call.args[1]) = Vocabulary(u_call.args[2])) =>
        u_ret.value = <<1, 1>>

\* C11 (amended): for all token lists A and B with identical sets of distinct
\* tokens, jaccard_similarity(A, B) = 1.0 when that set is not empty, and 0.0
\* when both lists are empty.
C11_IdenticalNonEmptySetsGiveOne ==
    (Called("jaccard_similarity")
        /\ Vocabulary(u_call.args[1]) = Vocabulary(u_call.args[2])) =>
        u_ret.value = (IF Vocabulary(u_call.args[1]) # {} THEN <<1, 1>> ELSE <<0, 1>>)

\* two different lists with the same vocabulary, one of them repeating a token
C11_Witness ==
    /\ Called("jaccard_similarity")
    /\ u_call.args[1] # u_call.args[2]
    /\ Len(u_call.args[1]) # Len(u_call.args[2])
    /\ Vocabulary(u_call.args[1]) = Vocabulary(u_call.args[2])
    /\ Cardinality(Vocabulary(u_call.args[1])) = 2
    /\ u_ret.value = <<1, 1>>

\* C12: for all token lists A and B, jaccard_similarity(A, B) =
\* jaccard_similarity(B, A) = |set(A) \cap set(B)| / |set(A) \cup set(B)|; it is
\* 0.0 when the vocabularies are disjoint or the union is empty; and repeating
\* a token of A in A, or of B in B, does not change the result.
C12_SymmetricOverSets ==
    Called("jaccard_similarity") =>
        LET A == u_call.args[1]
            B == u_call.args[2]
            both == Cardinality({t \in Tokens : t \in Vocabulary(A) /\ t \in Vocabulary(B)})
            any == Cardinality({t \in Tokens : t \in Vocabulary(A) \/ t \in Vocabulary(B)})
        IN  /\ any > 0 => u_ret.value[1] * any = both * u_ret.value[2]
            /\ (both = 0 \/ any = 0) => u_ret.value = <<0, 1>>
            /\ u_ret.value[2] > 0 /\ Gcd(u_ret.value[1], u_ret.value[2]) = 1
            /\ jaccard_similarity(B, A) = u_ret.value
            /\ \A i \in 1..Len(A) : jaccard_similarity(Append(A, A[i]), B) = u_ret.value
            /\ \A i \in 1..Len(B) : jaccard_similarity(A, Append(B, B[i])) = u_ret.value

\* lists of different lengths that share one token of three, with a repetition
C12_Witness ==
    /\ Called("jaccard_similarity")
    /\ Len(u_call.args[1]) = 3 /\ Cardinality(Vocabulary(u_call.args[1])) = 2
    /\ Len(u_call.args[2]) = 2 /\ Cardinality(Vocabulary(u_call.args[2])) = 2
    /\ u_ret.value = <<1, 3>>

\* C13: for all HTML inputs, malformed markup included (an unclosed tag, a lone
\* '<' or '>', an empty '<>'), the text strip_html returns holds neither '<'
\* nor '>'.
C13_TextHasNoTagDelimiters ==
    Called("strip_html") =>
        \A i \in 1..Len(u_ret.value.text) : u_ret.value.text[i] \notin {"<", ">"}

\* the href= (field "links") or src= (field "images") values that the pieces
\* of an input hold outside script and style blocks, in document order
RECURSIVE OutsideBlocks(_, _)
OutsideBlocks(parts, field) ==
    IF parts = <<>> THEN <<>>
    ELSE Head(parts)[field] \o OutsideBlocks(Tail(parts), field)

\* a removed block that holds an href= or src= attribute
IsBlockWithAttr(part) ==
    /\ part.links = <<>> /\ part.images = <<>>
    /\ \E i \in 1..Len(part.src) :
          MatchAt(part.src, i, HrefAttr) \/ MatchAt(part.src, i, SrcAttr)

\* C17: for every input made of closed tags, text, stray delimiters and closed
\* script and style blocks, the links and images strip_html returns are exactly
\* the href= and src= values outside the removed blocks, in document order
\* with duplicates kept; no value inside a removed block is returned.
C17_LinksFromRemainingMarkup ==
    Called("strip_html") =>
        /\ u_ret.value.links = OutsideBlocks(u_call.parts, "links")
        /\ u_ret.value.images = OutsideBlocks(u_call.parts, "images")
        /\ \A i \in 1..Len(u_ret.value.links) : u_ret.value.links[i] \notin {<<"z">>, <<"w">>}
        /\ \A i \in 1..Len(u_ret.value.images) : u_ret.value.images[i] \notin {<<"z">>, <<"w">>}

\* a block holding an attribute between two tags that hold different links
C17_Witness ==
    /\ Called("strip_html")
    /\ Len(u_call.parts) = 3
    /\ IsBlockWithAttr(u_call.parts[2])
    /\ u_ret.value.links = << <<"v">>, <<"x">> >>

\* C14: within one Processor run, whatever the fetch-completion record, no
\* path under /shared/processed is opened for writing more than once, and no
\* ProcessedDocument is written or changed once process_complete.json has been
\* written.
C14_WrittenOnceThenImmutable ==
    [][/\ \A o \in OutNames : doc_writes'[o] <= 1
       /\ ppc = "done" => processed' = processed]_vars

\* C15: every step of the Processor leaves the raw documents,
\* fetch_complete.json and final_report.json unchanged, and only the Processor
\* writes ProcessedDocument files and process_complete.json; every step of the
\* Analyzer leaves the raw documents, both completion records and all
\* ProcessedDocument files unchanged, and only the Analyzer writes
\* final_report.json.
C15_StagesWriteOwnNamespace ==
    [][/\ (plocals' # plocals \/ phistory' # phistory) =>
             UNCHANGED <<raw, fetch_complete, final_report>>
       /\ (alocals' # alocals \/ ahistory' # ahistory) =>
             UNCHANGED <<raw, fetch_complete, processed, process_complete>>
       /\ (processed' # processed \/ process_complete' # process_complete) =>
             (plocals' # plocals /\ alocals' = alocals)
       /\ final_report' # final_report =>
             (alocals' # alocals /\ plocals' = plocals)]_vars

\* both stages have run to their end, each having written its own files, and
\* the fetch stage's files are as it left them
C15_Witness ==
    /\ ppc = "done" /\ apc = "done"
    /\ \E o \in OutNames : doc_writes[o] > 0 /\ processed[o].state = "complete"
    /\ status_writes = 1 /\ report_writes = 1
    /\ final_report.state = "complete"
    /\ fetch_complete = Complete(fetch_status)
    /\ \A i \in 1..Len(p_successful_files) :
          raw[p_successful_files[i].file] = Complete(RawHtml(p_successful_files[i].file))

\* C16: with both stages scheduled fairly, once a well-formed
\* fetch_complete.json is there the Processor eventually is past its poll, has
\* handled every listed item, has written process_complete.json (opened for
\* writing exactly once) and has terminated; and once it has, the Analyzer
\* eventually is past its poll and has terminated, with final_report.json
\* written exactly once or without having written a report.
C16_BothStagesTerminate ==
    /\ [](status_writes <= 1 /\ report_writes <= 1)
    /\ [](status_writes = 1 => pidx > Len(p_successful_files))
    /\ (fetch_complete.state = "complete") ~>
          (/\ ppc = "done"
           /\ status_writes = 1
           /\ Len(results) = NumSuccess(fetch_status.results)
           /\ process_complete = Complete(CompletionStatus(results)))
    /\ (ppc = "done") ~>
          (/\ apc \in {"done", "crashed"}
           /\ \/ report_writes = 1 /\ final_report = Complete(a_report)
              \/ report_writes = 0)

\* both stages have terminated after a run over two items, the report written
C16_Witness ==
    /\ ppc = "done" /\ status_writes = 1 /\ Len(results) = 2
    /\ apc = "done" /\ report_writes = 1
    /\ final_report = Complete(a_report)

\* C18: tokenize_text returns, in order, exactly the maximal runs of letters
\* of the lower-cased text: every other character (digit, underscore,
\* punctuation, whitespace) ends a run and is in no token, so the letters next
\* to a digit (as in 'abc123') are a token too.
C18_TokensAreMaximalLetterRuns ==
    Called("tokenize_text") =>
        LET lowered == LowerStr(u_call.args[1])
        IN  u_ret.value =
              RunsFrom(lowered, 1, <<>>, [i \in 1..Len(lowered) |-> ~IsAlpha(lowered[i])])

\* C19: for every word list w and n in {2, 3}, extract_ngrams(w, n) returns
\* max(0, len(w) - n + 1) strings, the i-th being the words w[i], ..., w[i+n-1]
\* with one space between neighbours, in document order; it returns the empty
\* list when len(w) < n; and the call leaves w as it was.
C19_NgramWindows ==
    /\ [](Called("extract_ngrams") =>
            LET w == u_call.args[1]
                n == u_call.args[2]
                r == u_ret.value
            IN  /\ Len(r) = (IF Len(w) - n + 1 > 0 THEN Len(w) - n + 1 ELSE 0)
                /\ Len(w) < n => r = <<>>
                /\ \A i \in 1..Len(r) :
                      r[i] = (IF n = 2 THEN w[i] \o <<" ">> \o w[i+1]
                              ELSE w[i] \o <<" ">> \o w[i+1] \o <<" ">> \o w[i+2]))
    /\ [][u_call'.args = u_call.args]_vars

\* two trigrams from four words
C19_Witness ==
    /\ Called("extract_ngrams")
    /\ Len(u_call.args[1]) = 4 /\ u_call.args[2] = 3
    /\ Len(u_ret.value) = 2
    /\ u_ret.value[1] # u_ret.value[2]

\* the bigrams of the documents of a corpus, document by document
RECURSIVE AllBigrams(_)
AllBigrams(texts) ==
    IF texts = <<>> THEN <<>>
    ELSE extract_ngrams(tokenize_text(Head(texts)), 2) \o AllBigrams(Tail(texts))

Occurrences(items, x) == Cardinality({i \in 1..Len(items) : items[i] = x})
FirstAt(items, x) ==
    CHOOSE i \in 1..Len(items) : items[i] = x /\ \A j \in 1..(i-1) : items[j] # x

\* keys, with counts, are the min(k, distinct items) items that occur most
\* often in items, each with the number of its occurrences, the counts not
\* increasing; with ties set, equal counts are in order of first occurrence
RankedByCount(items, keys, counts, k, ties) ==
    LET distinct == Range(items)
    IN  /\ Len(keys) = (IF Cardinality(distinct) < k THEN Cardinality(distinct) ELSE k)
        /\ Len(counts) = Len(keys)
        /\ \A i \in 1..Len(keys) :
              /\ keys[i] \in distinct
              /\ counts[i] = Occurrences(items, keys[i])
        /\ \A i \in 1..Len(keys) : \A j \in (i+1)..Len(keys) :
              /\ keys[i] # keys[j]
              /\ counts[i] >= counts[j]
              /\ (ties /\ counts[i] = counts[j]) =>
                    FirstAt(items, keys[i]) < FirstAt(items, keys[j])
        /\ \A x \in distinct \ Range(keys) : \A i \in 1..Len(keys) :
              Occurrences(items, x) <= counts[i]

\* the two rankings of a report over the documents texts
ReportRankings(report, texts) ==
    LET tw == report.top_100_words
        tb == report.top_bigrams
    IN  /\ RankedByCount(TokenizeAll(texts),
                          [i \in 1..Len(tw) |-> tw[i].word],
                          [i \in 1..Len(tw) |-> tw[i].count], 100, TRUE)
        /\ RankedByCount(AllBigrams(texts),
                          [i \in 1..Len(tb) |-> tb[i].bigram],
                          [i \in 1..Len(tb) |-> tb[i].count], 20, FALSE)

\* C20 (as claimed): the top-word list holds the min(100, unique_words) words
\* with the highest corpus-wide counts, counts not increasing, equal counts in
\* order of first encounter, each with frequency = count / total_words; the
\* top-bigram list holds the min(20, distinct bigrams) bigrams with the highest
\* counts, counts not increasing.
C20_TopRankings ==
    Called("final_report") =>
        /\ ReportRankings(u_ret.value, u_call.args[1])
        /\ \A i \in 1..Len(u_ret.value.top_100_words) :
              LET e == u_ret.value.top_100_words[i]
              IN  e.frequency * Len(TokenizeAll(u_call.args[1])) = 10000 * e.count

\* C20 (amended): as claimed, but each frequency is count / total_words
\* rounded to four decimal places (the multiple of 0.0001 nearest to it).
C20_TopRankingsRounded ==
    Called("final_report") =>
        /\ ReportRankings(u_ret.value, u_call.args[1])
        /\ u_ret.value.total_words = Len(TokenizeAll(u_call.args[1]))
        /\ \A i \in 1..Len(u_ret.value.top_100_words) :
              LET e == u_ret.value.top_100_words[i]
                  diff == e.frequency * u_ret.value.total_words - 10000 * e.count
              IN  2 * (IF diff < 0 THEN -diff ELSE diff) <= u_ret.value.total_words

\* a corpus with more than 20 different bigrams, two of its top words with the
\* same count, and a frequency that is not a multiple of 0.0001
C20_Witness ==
    /\ Called("final_report")
    /\ Cardinality(Range(AllBigrams(u_call.args[1]))) > 20
    /\ Len(u_ret.value.top_bigrams) = 20
    /\ u_ret.value.top_bigrams[1].count > u_ret.value.top_bigrams[20].count
    /\ \E i \in 1..Len(u_ret.value.top_100_words) :
          /\ i > 1
          /\ u_ret.value.top_100_words[i].count = u_ret.value.top_100_words[i-1].count
          /\ u_ret.value.top_100_words[i].frequency * u_ret.value.total_words
                # 10000 * u_ret.value.top_100_words[i].count

\* C21: the paragraph_count of every ProcessedDocument is 0 when its cleaned
\* text is empty and 1 otherwise, however many paragraphs separated by blank
\* lines the raw HTML has.
C21_ParagraphCountAtMostOne ==
    Called("process_html_file") =>
        u_ret.value.statistics.paragraph_count =
            (IF u_ret.value.text = <<>> THEN 0 ELSE 1)

\* raw HTML of several paragraphs separated by blank lines, counted as one
C21_Witness ==
    /\ Called("process_html_file")
    /\ Len(Paragraphs(u_call.args[2])) >= 2
    /\ u_ret.value.text # <<>>
    /\ u_ret.value.statistics.paragraph_count = 1

\* C22: in the record a finished Processor run wrote, every success result
\* agrees with the ProcessedDocument stored at its output_file: the same
\* source_file, and word_count, link_count and image_count equal to the
\* document's statistics.word_count, number of links and number of images.
C22_SuccessResultAgreesWithDocument ==
    (ppc = "done" /\ process_complete.state = "complete") =>
        \A i \in 1..Len(process_complete.data.results) :
            LET r == process_complete.data.results[i]
                f == processed[r.output_file]
            IN  r.status = "success" =>
                    /\ f.state = "complete"
                    /\ f.data.source_file = r.source_file
                    /\ f.data.statistics.word_count = r.word_count
                    /\ Len(f.data.links) = r.link_count
                    /\ Len(f.data.images) = r.image_count

=============================================================================
